---- MODULE Spec2Model ----
(***************************************************************************)
(* The aggregator natives of aptos-move/framework                          *)
(* (natives/aggregator_natives/aggregator.rs): native add, read, sub and   *)
(* destroy, acting on the per-context Aggregator Table (AggregatorData)    *)
(* and consulting the Resolver on materialization.                         *)
(*                                                                         *)
(* The four natives are translated from the source.  Aggregator and        *)
(* AggregatorData live in the aptos_aggregator crate, whose code is not    *)
(* among the sources; they are modelled from the design document.          *)
(***************************************************************************)
EXTENDS Integers, FiniteSets

(* ------------------------------ bounds -------------------------------- *)

\* largest limit a caller passes
MaxLimit == 3
\* largest amount passed to add or sub
MaxAmount == 2
\* Resolver consultations followed inside one run of consecutive reads
MaxRunCalls == 2

Ids == {"a", "b"}
Limits == {MaxLimit - 1, MaxLimit}
Amounts == 1..MaxAmount
\* the Resolver answers a small base, or one above every limit
Bases == {0, 1, MaxLimit + 1}
\* caps of the pending net change of a Delta aggregator
MaxPending == MaxLimit + 1
MinPending == 0 - MaxAmount

(* --------------------------- values and results ----------------------- *)

\* the Resolver's answers: a base value, or a failure of the lookup
ResolverAnswers == [tag : {"Value"}, value : Bases] \cup {[tag |-> "Error", value |-> 0]}
\* no Resolver answer was asked for
NoAnswer == [tag |-> "None", value |-> 0]

\* PartialVMResult of a native: Ok (with the value read, 0 when none) or an error
Ok(v) == [tag |-> "Ok", value |-> v]
Err(kind) == [tag |-> kind, value |-> 0]
ErrorKinds == {"Overflow", "Underflow", "ResolverError"}

(* ------------------------------ Aggregator ---------------------------- *)

\* a fresh aggregator: Delta with an empty pending net change
new_aggregator(id, limit) ==
    [id |-> id, limit |-> limit, state |-> "Delta", value |-> 0]

\* what stands for "no entry" where an entry is recorded
NoAgg == [id |-> "none", limit |-> 0, state |-> "Absent", value |-> 0]

\* Aggregator::add without the bound check on Materialized
add_unchecked(agg, value) ==
    [agg |-> [agg EXCEPT !.value = @ + value], result |-> Ok(0)]

\* Aggregator::add: accumulate on Delta, eager bound check on Materialized
add(agg, value) ==
    IF agg.state = "Delta"
    THEN [agg |-> [agg EXCEPT !.value = @ + value], result |-> Ok(0)]
    ELSE IF agg.value + value > agg.limit
         THEN [agg |-> agg, result |-> Err("Overflow")]
         ELSE [agg |-> [agg EXCEPT !.value = @ + value], result |-> Ok(0)]

\* Aggregator::sub(value): it is handed no Resolver, so it cannot
\* materialize; on Materialized it decrements with a check against zero, on
\* Delta it lowers the signed pending net change
sub(agg, value) ==
    IF agg.state = "Delta"
    THEN [agg |-> [agg EXCEPT !.value = @ - value], result |-> Ok(0)]
    ELSE IF agg.value < value
         THEN [agg |-> agg, result |-> Err("Underflow")]
         ELSE [agg |-> [agg EXCEPT !.value = @ - value], result |-> Ok(0)]

\* Aggregator::read_and_materialize(resolver, id); answer is what the
\* Resolver says if it is asked
read_and_materialize(agg, answer) ==
    IF agg.state = "Materialized"
    THEN [agg |-> agg, result |-> Ok(agg.value), consulted |-> 0]
    ELSE IF answer.tag = "Error"
         THEN [agg |-> agg, result |-> Err("ResolverError"), consulted |-> 1]
         ELSE LET total == answer.value + agg.value
              IN  IF total > agg.limit
                  THEN [agg |-> agg, result |-> Err("Overflow"), consulted |-> 1]
                  ELSE IF total < 0
                       THEN [agg |-> agg, result |-> Err("Underflow"), consulted |-> 1]
                       ELSE [agg |-> [agg EXCEPT !.state = "Materialized", !.value = total],
                             result |-> Ok(total), consulted |-> 1]

(* --------------------------- Aggregator Table ------------------------- *)

has_aggregator(t, id) == \E e \in t : e.id = id

\* the entry the table returns for id
entry(t, id) == CHOOSE e \in t : e.id = id

\* the entry for id, or NoAgg
entry_or_none(t, id) == IF has_aggregator(t, id) THEN entry(t, id) ELSE NoAgg

\* AggregatorData::get_aggregator(id, limit): get-or-create
get_aggregator(t, id, limit) ==
    IF has_aggregator(t, id) THEN t ELSE t \cup {new_aggregator(id, limit)}

\* AggregatorData::remove_aggregator(id)
remove_aggregator(t, id) == {e \in t : e.id # id}

\* write back through the &mut Aggregator the table handed out
store(t, old, new) == (t \ {old}) \cup {new}

\* the engine's merge of the pending net changes two execution contexts
\* hold for one counter
merge_deltas(a1, a2) == [a1 EXCEPT !.value = a1.value + a2.value]

(* ------------------------------- natives ------------------------------ *)

\* native_add with the table entry created anew on every call
native_add_fresh(t, id, limit, value) ==
    LET old == new_aggregator(id, limit)
        r == add(old, value)
    IN  [table |-> {e \in t : e.id # id} \cup {r.agg}, result |-> r.result, consulted |-> 0, asked |-> "none"]

\* native_add inserting without looking the id up
native_add_insert(t, id, limit, value) ==
    LET r == add(new_aggregator(id, limit), value)
    IN  [table |-> t \cup {r.agg}, result |-> r.result, consulted |-> 0, asked |-> "none"]

\* native_add calling Aggregator::sub
native_add_as_sub(t, id, limit, value) ==
    LET t1 == get_aggregator(t, id, limit)
        old == entry(t1, id)
        r == sub(old, value)
    IN  [table |-> store(t1, old, r.agg), result |-> r.result, consulted |-> 0, asked |-> "none"]

\* native_add checking the bound on a pending Delta as well
native_add_eager(t, id, limit, value) ==
    LET t1 == get_aggregator(t, id, limit)
        old == entry(t1, id)
        r == add([old EXCEPT !.state = "Materialized"], value)
    IN  [table |-> store(t1, old, [r.agg EXCEPT !.state = old.state]),
         result |-> r.result, consulted |-> 0, asked |-> "none"]

native_add(t, id, limit, value) ==
    LET t1 == get_aggregator(t, id, limit)
        old == entry(t1, id)
        r == add(old, value)
    IN  [table |-> store(t1, old, r.agg), result |-> r.result, consulted |-> 0, asked |-> "none"]

\* native_read returning the value without keeping the materialized state
native_read_no_store(t, id, limit, answer) ==
    LET t1 == get_aggregator(t, id, limit)
        r == read_and_materialize(entry(t1, id), answer)
    IN  [table |-> t1, result |-> r.result, consulted |-> r.consulted,
         asked |-> IF r.consulted = 1 THEN id ELSE "none"]

\* native_read taking a failed Resolver lookup for "no value yet", base 0
native_read_default(t, id, limit, answer) ==
    LET t1 == get_aggregator(t, id, limit)
        old == entry(t1, id)
        r == read_and_materialize(old, IF answer.tag = "Error"
                                       THEN [tag |-> "Value", value |-> 0]
                                       ELSE answer)
    IN  [table |-> store(t1, old, r.agg), result |-> r.result, consulted |-> r.consulted,
         asked |-> IF r.consulted = 1 THEN id ELSE "none"]

\* native_read keeping the entry it created only when the read succeeds
native_read_lazy(t, id, limit, answer) ==
    LET t1 == get_aggregator(t, id, limit)
        old == entry(t1, id)
        r == read_and_materialize(old, answer)
    IN  [table |-> IF r.result.tag = "Ok" THEN store(t1, old, r.agg) ELSE t,
         result |-> r.result, consulted |-> r.consulted,
         asked |-> IF r.consulted = 1 THEN id ELSE "none"]

native_read(t, id, limit, answer) ==
    LET t1 == get_aggregator(t, id, limit)
        old == entry(t1, id)
        r == read_and_materialize(old, answer)
    IN  [table |-> store(t1, old, r.agg), result |-> r.result, consulted |-> r.consulted,
         asked |-> IF r.consulted = 1 THEN id ELSE "none"]

\* native_sub with the materialization of its comment carried out
native_sub_materializing(t, id, limit, value, answer) ==
    LET t1 == get_aggregator(t, id, limit)
        old == entry(t1, id)
        m == read_and_materialize(old, answer)
        r == sub(m.agg, value)
    IN  IF m.result.tag # "Ok"
        THEN [table |-> t1, result |-> m.result, consulted |-> m.consulted,
              asked |-> IF m.consulted = 1 THEN id ELSE "none"]
        ELSE [table |-> store(t1, old, r.agg), result |-> r.result,
              consulted |-> m.consulted,
              asked |-> IF m.consulted = 1 THEN id ELSE "none"]

\* native_sub: the materialization is commented out (line 142), the Resolver
\* is not handed to Aggregator::sub; answer is what the Resolver would say
native_sub(t, id, limit, value, answer) ==
    LET t1 == get_aggregator(t, id, limit)
        old == entry(t1, id)
        r == sub(old, value)
    IN  [table |-> store(t1, old, r.agg), result |-> r.result, consulted |-> 0, asked |-> "none"]

\* native_destroy unpacking the struct and leaving the table alone
native_destroy_keep(t, id) ==
    [table |-> t, result |-> Ok(0), consulted |-> 0, asked |-> "none"]

\* native_destroy with the get-or-create prologue of the other natives
native_destroy_create(t, id) ==
    [table |-> get_aggregator(t, id, 0), result |-> Ok(0), consulted |-> 0, asked |-> "none"]

\* native_destroy removing by table handle: every id of the handle goes
native_destroy_by_handle(t, id) ==
    [table |-> {}, result |-> Ok(0), consulted |-> 0, asked |-> "none"]

native_destroy(t, id) ==
    [table |-> remove_aggregator(t, id), result |-> Ok(0), consulted |-> 0, asked |-> "none"]

(* -------------------------------- state ------------------------------- *)

VARIABLES
    table,      \* AggregatorData: the set of Aggregator entries of the context
    last,       \* the most recent native call: arguments, entry found, outcome
    adds,       \* history, per id: the sum of the adds on the current
                \* aggregator while it has seen nothing but adds and failed reads
    destroyed,  \* history: ids whose latest native call was destroy
    everMat,    \* history: ids whose aggregator has been Materialized
    run         \* history: the current run of consecutive reads of one id

vars == <<table, last, adds, destroyed, everMat, run>>

NoSum == [known |-> FALSE, sum |-> 0]
Sum(n) == [known |-> TRUE, sum |-> n]

NoRun == [id |-> "none", len |-> 0, first |-> Ok(0), fromDelta |-> FALSE, calls |-> 0]

Init ==
    /\ table = {}
    /\ last = [op |-> "init", id |-> "none", limit |-> 0, value |-> 0,
               pre |-> NoAgg, answer |-> NoAnswer, consulted |-> 0, asked |-> "none",
               result |-> Ok(0)]
    /\ adds = [i \in Ids |-> NoSum]
    /\ destroyed = {}
    /\ everMat = {}
    /\ run = NoRun

\* the pending net change stays within the caps of the model
WithinCap(t) ==
    \A e \in t : e.state = "Delta" => (e.value <= MaxPending /\ e.value >= MinPending)

\* the Resolver is a capability of the context; it answers only when asked,
\* and nothing asks it about a Materialized aggregator
Answers(t, id) ==
    IF entry_or_none(t, id).state = "Materialized" THEN {NoAnswer} ELSE ResolverAnswers

\* a native call takes effect: out is the native's outcome
Commit(op, id, limit, value, answer, out) ==
    /\ WithinCap(out.table)
    /\ table' = out.table
    /\ last' = [op |-> op, id |-> id, limit |-> limit, value |-> value,
                pre |-> entry_or_none(table, id),
                answer |-> IF out.consulted = 1 THEN answer ELSE NoAnswer,
                consulted |-> out.consulted, asked |-> out.asked,
                result |-> out.result]

(* ------------------------------- actions ------------------------------ *)

Add ==
    \E id \in Ids, limit \in Limits, value \in Amounts :
        Commit("add", id, limit, value, NoAnswer, native_add(table, id, limit, value))

Read ==
    \E id \in Ids, limit \in Limits :
        \E answer \in Answers(table, id) :
            Commit("read", id, limit, 0, answer, native_read(table, id, limit, answer))

Sub ==
    \E id \in Ids, limit \in Limits, value \in Amounts :
        \E answer \in Answers(table, id) :
            Commit("sub", id, limit, value, answer,
                   native_sub(table, id, limit, value, answer))

Destroy ==
    \E id \in Ids :
        Commit("destroy", id, 0, 0, NoAnswer, native_destroy(table, id))

(* ------------------------------ histories ----------------------------- *)

\* adds: the sum of the amounts added to the aggregator of the id just called
TrackAdds ==
    adds' = [adds EXCEPT ![last'.id] =
               CASE last'.op = "add" ->
                      IF last'.pre = NoAgg THEN Sum(last'.value)
                      ELSE IF @.known /\ last'.result.tag = "Ok"
                           THEN Sum(@.sum + last'.value)
                           ELSE NoSum
                 [] last'.op = "read" ->
                      IF last'.result.tag = "Ok" THEN NoSum
                      ELSE IF last'.pre = NoAgg THEN Sum(0) ELSE @
                 [] OTHER -> NoSum]

\* destroyed and everMat: the life of each id's aggregators
TrackLife ==
    /\ destroyed' = IF last'.op = "destroy"
                    THEN destroyed \cup {last'.id}
                    ELSE destroyed \ {last'.id}
    /\ everMat' = everMat \cup {e.id : e \in {x \in table' : x.state = "Materialized"}}

\* run: the consecutive reads of one id, up to MaxRunCalls Resolver calls
TrackRun ==
    /\ run' = IF last'.op # "read" THEN NoRun
              ELSE IF run.id = last'.id
                   THEN [run EXCEPT !.len = IF @ < 2 THEN @ + 1 ELSE @,
                                    !.calls = @ + last'.consulted]
                   ELSE [id |-> last'.id, len |-> 1, first |-> last'.result,
                         fromDelta |-> last'.pre.state # "Materialized",
                         calls |-> last'.consulted]
    /\ run'.calls <= MaxRunCalls

(* ---------------------------- specifications -------------------------- *)

\* the natives alone
Next ==
    \/ Add /\ UNCHANGED <<adds, destroyed, everMat, run>>
    \/ Read /\ UNCHANGED <<adds, destroyed, everMat, run>>
    \/ Sub /\ UNCHANGED <<adds, destroyed, everMat, run>>
    \/ Destroy /\ UNCHANGED <<adds, destroyed, everMat, run>>

Spec == Init /\ [][Next]_vars

\* the natives, with the sums of the adds
NextAdds ==
    \/ Add /\ TrackAdds /\ UNCHANGED <<destroyed, everMat, run>>
    \/ Read /\ TrackAdds /\ UNCHANGED <<destroyed, everMat, run>>
    \/ Sub /\ TrackAdds /\ UNCHANGED <<destroyed, everMat, run>>
    \/ Destroy /\ TrackAdds /\ UNCHANGED <<destroyed, everMat, run>>

SpecAdds == Init /\ [][NextAdds]_vars

\* the natives, with the life of each id
NextLife ==
    \/ Add /\ TrackLife /\ UNCHANGED <<adds, run>>
    \/ Read /\ TrackLife /\ UNCHANGED <<adds, run>>
    \/ Sub /\ TrackLife /\ UNCHANGED <<adds, run>>
    \/ Destroy /\ TrackLife /\ UNCHANGED <<adds, run>>

SpecLife == Init /\ [][NextLife]_vars

\* the natives, with the runs of consecutive reads
NextRun ==
    \/ Add /\ TrackRun /\ UNCHANGED <<adds, destroyed, everMat>>
    \/ Read /\ TrackRun /\ UNCHANGED <<adds, destroyed, everMat>>
    \/ Sub /\ TrackRun /\ UNCHANGED <<adds, destroyed, everMat>>
    \/ Destroy /\ TrackRun /\ UNCHANGED <<adds, destroyed, everMat>>

SpecRun == Init /\ [][NextRun]_vars

(* -------------------------------- claims ------------------------------ *)

\* the aggregator the latest call addressed, as the table now holds it
Now == entry_or_none(table, last.id)

\* the aggregator the latest call was handed by get_aggregator
Handed == IF last.pre = NoAgg THEN new_aggregator(last.id, last.limit) ELSE last.pre

\* C1: a read that follows nothing but adds d1..dn on a fresh Delta aggregator
\* of limit L consults the Resolver and, given the base B, returns
\* B + (d1 + ... + dn) exactly when that lies in 0..L, fails with Overflow
\* when it exceeds L, and on success leaves Materialized with that value.
C1_ReadAfterAdds ==
    [][LET c == last'
           S == IF c.pre = NoAgg THEN 0 ELSE adds[c.id].sum
           B == c.answer.value
           L == IF c.pre = NoAgg THEN c.limit ELSE c.pre.limit
           e == entry_or_none(table', c.id)
       IN  (c.op = "read" /\ (c.pre = NoAgg \/ adds[c.id].known)) =>
               /\ c.consulted = 1
               /\ c.answer.tag = "Value" =>
                    /\ (c.result = Ok(B + S)) <=> (0 <= B + S /\ B + S <= L)
                    /\ B + S > L => c.result = Err("Overflow")
                    /\ c.result.tag \in {"Ok", "Overflow", "Underflow"}
                    /\ c.result.tag = "Ok" =>
                         e = [id |-> c.id, limit |-> L, state |-> "Materialized",
                              value |-> B + S]
      ]_vars

\* C1 witness: a read after at least two adds returned base plus their sum
C1_Witness ==
    /\ last.op = "read"
    /\ last.pre.state = "Delta"
    /\ last.pre.value > MaxAmount
    /\ last.answer.tag = "Value"
    /\ last.result = Ok(last.answer.value + last.pre.value)
    /\ Now.state = "Materialized"

\* C2: a sub on an aggregator in Delta state (fresh ones included) consults
\* the Resolver exactly once and, when it returns without a materialization
\* error, has moved the aggregator to Materialized.
C2_SubMaterializesFirst ==
    (last.op = "sub" /\ last.pre.state # "Materialized") =>
        /\ last.consulted = 1
        /\ last.result.tag = "Ok" => Now.state = "Materialized"

\* C3 as stated: over every run of consecutive reads of one aggregator each
\* call returns what the first returned, and the Resolver is consulted once
\* in total, by the call that found the aggregator in Delta.
C3_EveryRunConsultsOnce ==
    run.id # "none" =>
        /\ last.result = run.first
        /\ run.calls = (IF run.fromDelta THEN 1 ELSE 0)

\* C3 amended: over a run of consecutive reads of one aggregator whose first
\* call succeeds, each call returns the value of the first, the aggregator
\* stays Materialized with it, and the Resolver is consulted by the first call
\* alone, and only if that call found the aggregator in Delta.
C3_RunAfterSuccess ==
    (run.id # "none" /\ run.first.tag = "Ok") =>
        /\ last.result = run.first
        /\ run.calls = (IF run.fromDelta THEN 1 ELSE 0)
        /\ Now.state = "Materialized"
        /\ Now.value = run.first.value

\* C3 witness: a second read in a row after one that materialized
C3_Witness ==
    /\ run.len = 2
    /\ run.fromDelta
    /\ run.first.tag = "Ok"
    /\ run.calls = 1
    /\ last.consulted = 0
    /\ last.result = run.first

C5_AddOnDelta ==
    (last.op = "add" /\ last.pre.state # "Materialized") =>
        /\ last.consulted = 0
        /\ last.result = Ok(0)
        /\ Now = [Handed EXCEPT !.value = @ + last.value]

\* C5 witness: an add took the pending net change above the limit
C5_Witness ==
    /\ last.op = "add"
    /\ last.pre.state = "Delta"
    /\ last.result = Ok(0)
    /\ Now.state = "Delta"
    /\ Now.value > Now.limit

\* C6: add(d) on Materialized(v) does not consult the Resolver; when
\* v + d <= limit it leaves Materialized(v + d), otherwise it fails with
\* Overflow and the value stays v.
C6_AddOnMaterialized ==
    (last.op = "add" /\ last.pre.state = "Materialized") =>
        /\ last.consulted = 0
        /\ IF last.pre.value + last.value <= last.pre.limit
           THEN /\ last.result = Ok(0)
                /\ Now = [last.pre EXCEPT !.value = @ + last.value]
           ELSE /\ last.result = Err("Overflow")
                /\ Now = last.pre

\* C6 witness: an add on a materialized value overflowed and left it alone
C6_Witness ==
    /\ last.op = "add"
    /\ last.pre.state = "Materialized"
    /\ last.pre.value > 0
    /\ last.result = Err("Overflow")
    /\ Now = last.pre

\* C7: sub(d) on a fresh aggregator whose base resolves to b consults the
\* Resolver, materializes to b, and leaves Materialized(b - d) when d <= b,
\* or fails with Underflow leaving Materialized(b).
C7_SubOnFresh ==
    (last.op = "sub" /\ last.pre = NoAgg) =>
        /\ last.consulted = 1
        /\ (last.answer.tag = "Value" /\ last.answer.value <= last.limit) =>
             IF last.value <= last.answer.value
             THEN /\ last.result = Ok(0)
                  /\ Now = [Handed EXCEPT !.state = "Materialized",
                                          !.value = last.answer.value - last.value]
             ELSE /\ last.result = Err("Underflow")
                  /\ Now = [Handed EXCEPT !.state = "Materialized",
                                          !.value = last.answer.value]

\* C8 as stated: an id whose aggregator has been Materialized never has an
\* aggregator in Delta state afterwards.
C8_NeverDeltaAgain ==
    \A e \in table : e.id \in everMat => e.state # "Delta"

\* C8 amended: a Materialized aggregator stays Materialized under every add,
\* sub and read; it only goes away by a destroy of its id (after which a
\* later access creates a new Delta aggregator).
C8_MaterializedUntilDestroyed ==
    [][\A e \in table :
          e.state = "Materialized" =>
              IF has_aggregator(table', e.id)
              THEN \A f \in table' : f.id = e.id => f.state = "Materialized"
              ELSE last'.op = "destroy" /\ last'.id = e.id
      ]_vars

\* C8 witness: an add or sub acted on a Materialized aggregator
C8_Witness ==
    /\ last.op \in {"add", "sub"}
    /\ last.pre.state = "Materialized"
    /\ last.result = Ok(0)
    /\ Now.state = "Materialized"
    /\ last.id \in everMat

\* C9: the first add, sub or read of an id after its destroy finds no entry
\* and acts on a new Delta aggregator with an empty pending change and the
\* limit of that call; a read then consults the Resolver and answers from
\* the base alone.
C9_FreshAfterDestroy ==
    [][LET c == last'
           e == entry_or_none(table', c.id)
           fresh == new_aggregator(c.id, c.limit)
       IN  (c.op # "destroy" /\ c.id \in destroyed) =>
               /\ c.pre = NoAgg
               /\ e.limit = c.limit
               /\ c.op = "add" => e = [fresh EXCEPT !.value = c.value]
               /\ c.op = "sub" => e = [fresh EXCEPT !.value = 0 - c.value]
               /\ c.op = "read" =>
                    /\ c.consulted = 1
                    /\ IF c.answer.tag = "Value" /\ c.answer.value <= c.limit
                       THEN /\ c.result = Ok(c.answer.value)
                            /\ e = [fresh EXCEPT !.state = "Materialized",
                                                 !.value = c.answer.value]
                       ELSE /\ c.result.tag \in ErrorKinds
                            /\ e = fresh
      ]_vars

\* C9 witness: an id that had a Materialized aggregator is Delta again, with
\* nothing but the amount just added
C9_Witness ==
    /\ last.op = "add"
    /\ last.id \in everMat
    /\ last.pre = NoAgg
    /\ Now = [new_aggregator(last.id, last.limit) EXCEPT !.value = last.value]

\* C10: the table never holds two entries for one id; a call on a present id
\* keeps the stored limit whatever limit it passes, and a call on an absent
\* id inserts one entry with the limit passed.
C10_OneEntryPerId ==
    /\ \A e1, e2 \in table : e1.id = e2.id => e1 = e2
    /\ last.op \in {"add", "sub", "read"} =>
         /\ has_aggregator(table, last.id)
         /\ Now.limit = Handed.limit
         /\ Now.id = last.id

\* C10 witness: a call passed another limit than the stored one
C10_Witness ==
    /\ last.op \in {"add", "sub", "read"}
    /\ last.pre # NoAgg
    /\ last.limit # last.pre.limit
    /\ Now.limit = last.pre.limit

\* C11: a destroy succeeds without consulting the Resolver; it removes the
\* entry of its id when there is one, and when there is none it leaves the
\* whole table as it was and creates nothing.
C11_DestroyRemoves ==
    [][last'.op = "destroy" =>
          /\ last'.result = Ok(0)
          /\ last'.consulted = 0
          /\ ~has_aggregator(table', last'.id)
          /\ table' \subseteq table
          /\ ~has_aggregator(table, last'.id) => table' = table
      ]_vars

\* C11 witness: a destroy of an id without entry, beside another id's entry
C11_Witness ==
    /\ last.op = "destroy"
    /\ last.pre = NoAgg
    /\ last.result = Ok(0)
    /\ table # {}
    /\ ~has_aggregator(table, last.id)

\* C12: a call on one id, failed or not, leaves the entry of every other id
\* as it was (present or not, limit, state, value), and a Resolver
\* consultation is about the id of the call.
C12_DistinctIdsApart ==
    [][/\ \A b \in Ids :
             b # last'.id => {e \in table' : e.id = b} = {e \in table : e.id = b}
       /\ last'.consulted = 1 => last'.asked = last'.id
       /\ last'.consulted = 0 => last'.asked = "none"
      ]_vars

\* C12 witness: a read of one id failed while another id is Materialized
C12_Witness ==
    /\ last.op = "read"
    /\ last.result.tag \in ErrorKinds
    /\ last.asked = last.id
    /\ \E e \in table : e.id # last.id /\ e.state = "Materialized" /\ e.value > 0

\* C13: when the Resolver fails, the call returns ResolverError after that
\* one consultation and leaves the aggregator Delta with its pending net
\* change; ResolverError has no other origin; and a read that follows in the
\* same run consults the Resolver again.
C13_ResolverFailure ==
    /\ last.answer.tag = "Error" =>
         /\ last.result = Err("ResolverError")
         /\ last.consulted = 1
         /\ Now = Handed
         /\ Now.state = "Delta"
    /\ last.result.tag = "ResolverError" => last.answer.tag = "Error"
    /\ (run.len = 2 /\ run.first.tag = "ResolverError") => run.calls >= 2

\* C13 witness: a second read in a row consulted the Resolver again after the
\* first failed in it, the pending net change still there
C13_Witness ==
    /\ run.len = 2
    /\ run.first = Err("ResolverError")
    /\ run.calls = 2
    /\ last.consulted = 1
    /\ last.result = Err("ResolverError")
    /\ last.pre.state = "Delta"
    /\ last.pre.value > 0
    /\ Now = last.pre

\* C14: on an aggregator that is not Materialized, two adds succeed without
\* consulting the Resolver and leave the same aggregator in either order,
\* and the same again when the second add is made in another context that
\* starts empty and the pending changes are merged; the materialization that
\* follows gives base + pending + d1 + d2 when that lies in 0..limit, and
\* the bound error otherwise, whatever the order.
C14_AddsCommute ==
    \A id \in Ids, limit \in Limits, d1 \in Amounts, d2 \in Amounts :
        entry_or_none(table, id).state # "Materialized" =>
            LET a1 == native_add(table, id, limit, d1)
                a12 == native_add(a1.table, id, limit, d2)
                a2 == native_add(table, id, limit, d2)
                a21 == native_add(a2.table, id, limit, d1)
                L == entry(a1.table, id).limit
                other == native_add({}, id, L, d2)
                merged == merge_deltas(entry(a1.table, id), entry(other.table, id))
                pending == entry_or_none(table, id).value
            IN  /\ \A a \in {a1, a12, a2, a21, other} :
                      a.result = Ok(0) /\ a.consulted = 0
                /\ a12.table = a21.table
                /\ merged = entry(a12.table, id)
                /\ \A answer \in ResolverAnswers :
                      answer.tag = "Value" =>
                          LET total == answer.value + pending + d1 + d2
                              expected == IF total > L THEN Err("Overflow")
                                          ELSE IF total < 0 THEN Err("Underflow")
                                          ELSE Ok(total)
                          IN  /\ native_read(a12.table, id, limit, answer).result = expected
                              /\ native_read(a21.table, id, limit, answer).result = expected
                              /\ read_and_materialize(merged, answer).result = expected

\* C14 witness: two different amounts were added, one after the other, to a
\* pending Delta that now holds their sum
C14_Witness ==
    /\ last.op = "add"
    /\ last.pre.state = "Delta"
    /\ last.pre.value > 0
    /\ last.value # last.pre.value
    /\ adds[last.id] = Sum(last.pre.value + last.value)
    /\ Now.state = "Delta"
    /\ Now.value = last.pre.value + last.value

\* C16: every Materialized aggregator of the table holds a value between 0
\* and its own stored limit.
C16_MaterializedWithinLimit ==
    \A e \in table : e.state = "Materialized" => (0 <= e.value /\ e.value <= e.limit)

\* C16 witness: a base above the limit was resolved, and the pending net
\* change brought the materialized value back within the limit
C16_Witness ==
    /\ last.op = "read"
    /\ last.answer.tag = "Value"
    /\ last.answer.value > Handed.limit
    /\ last.result.tag = "Ok"
    /\ Now.state = "Materialized"
    /\ Now.value <= Now.limit

\* C17: after a native add, read or sub the table holds an entry for the id
\* of the call, failed or not; a destroy adds no entry; and an entry only
\* leaves the table in a destroy.
C17_GetOrCreateFirst ==
    [][/\ last'.op \in {"add", "read", "sub"} => has_aggregator(table', last'.id)
       /\ last'.op = "destroy" => table' \subseteq table
       /\ (\E e \in table : ~has_aggregator(table', e.id)) => last'.op = "destroy"
      ]_vars

\* C17 witness: a read of an id without entry failed and the entry is there
C17_Witness ==
    /\ last.op = "read"
    /\ last.pre = NoAgg
    /\ last.result.tag \in ErrorKinds
    /\ Now = new_aggregator(last.id, last.limit)

====
